---- MODULE Spec2Model ----
(***************************************************************************)
(* A model of CovidDataProcessor (src/data_processor.py) and of the        *)
(* dashboard script that drives it (src/main.py).                          *)
(*                                                                         *)
(* A raw table (the DataFrame read_csv returns) is a record                *)
(*   [columns : the header, a sequence of column names (strings),          *)
(*    rows    : a sequence of [Province_State, Country_Region, Confirmed]] *)
(* where Confirmed[k] is the row's cell under the k-th column from the     *)
(* fifth column on.  Lat and Long carry no value the code reads; only      *)
(* their presence in the header matters.                                   *)
(*                                                                         *)
(* Calendar dates are day numbers: day d is the d-th day from 2020-01-22.  *)
(* An optional value (None in the code) is a sequence of length 0 or 1.    *)
(* The debug_info log of the processor is written and never read; it is    *)
(* left out.                                                               *)
(***************************************************************************)
EXTENDS Integers, Sequences, FiniteSets

VARIABLES data, country_data, result, ui

vars == <<data, country_data, result, ui>>

None == <<>>
Some(x) == <<x>>

Range(s) == {s[i] : i \in 1..Len(s)}

\* a function on 1..n as the sequence of its values
AsSeq(f) == f \o <<>>

---------------------------------------------------------------------------
(* Bounds of the model *)

\* cells of a raw table are drawn from 0..MaxCount
MaxCount == 1
\* a short table has at most MaxCells cells
MaxCells == 6
\* number of date columns of a long table
LongDates == 9

---------------------------------------------------------------------------
(* Column names and date labels *)

id_vars == <<"Province/State", "Country/Region", "Lat", "Long">>

\* month/day/two-digit-year labels; the i-th is day i
SlashLabels == <<"1/22/20", "1/23/20", "1/24/20", "1/25/20", "1/26/20",
                 "1/27/20", "1/28/20", "1/29/20", "1/30/20", "1/31/20">>
\* ISO labels; the i-th is day i
IsoLabels == <<"2020-01-22", "2020-01-23", "2020-01-24">>
\* a column name that is no date in any format
JunkLabel == "Total"

\* NaT, what errors='coerce' leaves for a label that does not parse
NaT == -1

IndexOf(s, x) == CHOOSE i \in 1..Len(s) : s[i] = x

\* the format a label is written in
FormatOf(label) ==
    IF label \in Range(SlashLabels) THEN "%m/%d/%y"
    ELSE IF label \in Range(IsoLabels) THEN "%Y-%m-%d"
    ELSE "none"

\* strptime(label, fmt): the label's day when it is written in fmt, else NaT
Strptime(label, fmt) ==
    IF fmt = "none" \/ FormatOf(label) # fmt THEN NaT
    ELSE IF fmt = "%m/%d/%y" THEN IndexOf(SlashLabels, label)
    ELSE IndexOf(IsoLabels, label)

\* pd.to_datetime(column, errors='coerce') on a column of strings: the format
\* is inferred from the first element and every element is parsed with it;
\* when no format can be inferred each element is parsed on its own.
ToDatetime(column) ==
    IF column = <<>> THEN <<>>
    ELSE LET guessed == FormatOf(column[1])
         IN  IF guessed = "none"
             THEN AsSeq([i \in 1..Len(column) |-> Strptime(column[i], FormatOf(column[i]))])
             ELSE AsSeq([i \in 1..Len(column) |-> Strptime(column[i], guessed)])

\* pd.to_datetime(column, format='%m/%d/%y', errors='coerce') on a column that
\* already holds datetimes (line 84 passes melted_df['Date'] after line 75
\* overwrote it): datetimes and NaT come back as they are.
ToDatetimeWithFormat(column) ==
    AsSeq([i \in 1..Len(column) |-> IF column[i] = NaT THEN NaT ELSE column[i]])

---------------------------------------------------------------------------
(* Helpers on sequences and on the order of strings *)

RECURSIVE SumSeq(_)
SumSeq(s) == IF s = <<>> THEN 0 ELSE s[1] + SumSeq(Tail(s))

\* every country name of the model, in the order Python and pandas sort strings
CountryOrder == <<"Australia", "Brazil", "Nonexististan">>

StrLess(a, b) == IndexOf(CountryOrder, a) < IndexOf(CountryOrder, b)

\* sorted(set of strings)
RECURSIVE SortedStrings(_)
SortedStrings(S) ==
    IF S = {} THEN <<>>
    ELSE LET m == CHOOSE x \in S : \A y \in S \ {x} : StrLess(x, y)
         IN  <<m>> \o SortedStrings(S \ {m})

\* group keys <<country, date>> in the order groupby(sort=True) emits them
KeyLess(k1, k2) ==
    \/ StrLess(k1[1], k2[1])
    \/ k1[1] = k2[1] /\ k1[2] < k2[2]

RECURSIVE SortedKeys(_)
SortedKeys(S) ==
    IF S = {} THEN <<>>
    ELSE LET m == CHOOSE x \in S : \A y \in S \ {x} : KeyLess(x, y)
         IN  <<m>> \o SortedKeys(S \ {m})

---------------------------------------------------------------------------
(* process_data, step by step *)

\* df.columns[4:]
date_columns(df) == SubSeq(df.columns, 5, Len(df.columns))

\* mutant of MeltRaises: a melt that does not look for its id_vars
MeltNeverRaises(df) == FALSE

\* melt raises KeyError when an id_var is not a column of the frame
MeltRaises(df) == \E i \in 1..Len(id_vars) : id_vars[i] \notin Range(df.columns)

\* df.melt(id_vars, value_vars=date_columns, var_name='Date',
\* value_name='Confirmed'): one row per (date column, raw row), the rows of
\* the first date column first
Melt(df) ==
    LET N == Len(df.rows)
        K == Len(date_columns(df))
    IN  AsSeq([n \in 1..(N * K) |->
            LET k == ((n - 1) \div N) + 1
                r == ((n - 1) % N) + 1
            IN  [Province_State |-> df.rows[r].Province_State,
                 Country_Region |-> df.rows[r].Country_Region,
                 Date           |-> date_columns(df)[k],
                 Confirmed      |-> df.rows[r].Confirmed[k]]])

\* lines 75-86: parse the Date column, and parse the parsed column again
\* with the alternate format when it holds a NaT
ParseDates(melted_df) ==
    LET labels    == AsSeq([n \in 1..Len(melted_df) |-> melted_df[n].Date])
        parsed    == ToDatetime(labels)
        nat_count == Cardinality({n \in 1..Len(parsed) : parsed[n] = NaT})
        dates     == IF nat_count > 0 THEN ToDatetimeWithFormat(parsed) ELSE parsed
    IN  AsSeq([n \in 1..Len(melted_df) |-> [melted_df[n] EXCEPT !.Date = dates[n]]])

\* mutant of GroupSum: the group's last value, not its sum
GroupLast(melted_df, key) ==
    LET members == {n \in 1..Len(melted_df) :
                       <<melted_df[n].Country_Region, melted_df[n].Date>> = key}
    IN  melted_df[CHOOSE n \in members : \A m \in members : m <= n].Confirmed

\* the sum of one group
GroupSum(melted_df, key) ==
    SumSeq(AsSeq([n \in 1..Len(melted_df) |->
               IF <<melted_df[n].Country_Region, melted_df[n].Date>> = key
               THEN melted_df[n].Confirmed ELSE 0]))

\* melted_df.groupby(['Country/Region', 'Date'])['Confirmed'].sum()
\* .reset_index(): one row per key, keys sorted, rows with a NaT key dropped
GroupBySum(melted_df) ==
    LET keys == {<<melted_df[n].Country_Region, melted_df[n].Date>> :
                    n \in {m \in 1..Len(melted_df) : melted_df[m].Date # NaT}}
        order == SortedKeys(keys)
    IN  AsSeq([i \in 1..Len(order) |->
            [Country_Region |-> order[i][1],
             Date           |-> order[i][2],
             Confirmed      |-> GroupSum(melted_df, order[i])]])

\* the positions before i that are in i's group
GroupBefore(t, i) == {j \in 1..(i - 1) : t[j].Country_Region = t[i].Country_Region}

Max(S) == CHOOSE x \in S : \A y \in S : y <= x

\* mutant of GroupDiff: the difference to the row above, whatever its country
UngroupedDiff(t) ==
    AsSeq([i \in 1..Len(t) |->
        IF i = 1 THEN None ELSE Some(t[i].Confirmed - t[i - 1].Confirmed)])

\* groupby('Country/Region')['Confirmed'].diff(): NaN (None) on the first
\* row of a group
GroupDiff(t) ==
    AsSeq([i \in 1..Len(t) |->
        IF GroupBefore(t, i) = {} THEN None
        ELSE Some(t[i].Confirmed - t[Max(GroupBefore(t, i))].Confirmed)])

\* .fillna(0)
Fillna(col) == AsSeq([i \in 1..Len(col) |-> IF col[i] = None THEN 0 ELSE col[i][1]])

\* .clip(lower=0)
Clip(col) == AsSeq([i \in 1..Len(col) |-> IF col[i] < 0 THEN 0 ELSE col[i]])

\* lines 101-104
DailyNew(t) == Clip(Fillna(GroupDiff(t)))

window == 7
min_periods == 1

\* mutant of RollingWindow: the last `window` rows of the table up to i,
\* whatever their country
UngroupedRollingWindow(t, i) == {j \in 1..i : i - j < window}

\* the positions of the rolling window that ends at the i-th row: the last
\* `window` rows of i's group up to i
RollingWindow(t, i) ==
    LET upto == GroupBefore(t, i) \cup {i}
    IN  {j \in upto : Cardinality({k \in upto : k >= j}) <= window}

\* a mean is the fraction num/den; NaN is 0/0
Mean(t, W) ==
    IF Cardinality(W) < min_periods THEN [num |-> 0, den |-> 0]
    ELSE [num |-> SumSeq(AsSeq([j \in 1..Len(t) |-> IF j \in W THEN t[j].Daily_New ELSE 0])),
          den |-> Cardinality(W)]

\* groupby('Country/Region')['Daily_New'].rolling(window=7, min_periods=1)
\* .mean().reset_index(0, drop=True)
SevenDayAverage(t) == AsSeq([i \in 1..Len(t) |-> Mean(t, RollingWindow(t, i))])

\* lines 88-109: the derived table of a parsed long table
Derive(melted_df) ==
    LET grouped == GroupBySum(melted_df)
        dn      == DailyNew(grouped)
        withDN  == AsSeq([i \in 1..Len(grouped) |->
                       [Country_Region |-> grouped[i].Country_Region,
                        Date           |-> grouped[i].Date,
                        Confirmed      |-> grouped[i].Confirmed,
                        Daily_New      |-> dn[i]]])
        avg     == SevenDayAverage(withDN)
    IN  AsSeq([i \in 1..Len(grouped) |->
            [Country_Region    |-> grouped[i].Country_Region,
             Date              |-> grouped[i].Date,
             Confirmed         |-> grouped[i].Confirmed,
             Daily_New         |-> dn[i],
             Seven_Day_Average |-> avg[i]]])

\* what process_data does with self.data = d: the error it raises, or the
\* table it stores in self.country_data
Process(d) ==
    IF d = None
    THEN [error |-> "ValueError: No data to process", table |-> <<>>]
    ELSE IF MeltRaises(d[1])
    THEN [error |-> "KeyError", table |-> <<>>]
    ELSE [error |-> "", table |-> Derive(ParseDates(Melt(d[1])))]

---------------------------------------------------------------------------
(* The raw tables the fetch can return *)

NaN == "NaN"

\* the identification cells of the rows of a table: whole-country rows have
\* no Province/State
RowLayouts ==
    { << [Province_State |-> NaN, Country_Region |-> "Australia"] >>,
      << [Province_State |-> NaN, Country_Region |-> "Australia"],
         [Province_State |-> NaN, Country_Region |-> "Brazil"] >>,
      << [Province_State |-> NaN, Country_Region |-> "Brazil"],
         [Province_State |-> NaN, Country_Region |-> "Australia"] >>,
      << [Province_State |-> "Victoria", Country_Region |-> "Australia"],
         [Province_State |-> NaN, Country_Region |-> "Australia"] >>,
      << [Province_State |-> "Victoria", Country_Region |-> "Australia"],
         [Province_State |-> NaN, Country_Region |-> "Brazil"],
         [Province_State |-> "Tasmania", Country_Region |-> "Australia"] >> }

\* the date columns of a table: none; in and out of chronological order;
\* mixed formats; a column that is no date
Headers ==
    { <<>>,
      <<"1/22/20", "1/23/20">>,
      <<"1/23/20", "1/22/20">>,
      <<"1/23/20", "1/24/20", "1/22/20">>,
      <<"2020-01-22", "1/23/20">>,
      <<"1/22/20", "2020-01-23">>,
      <<"Total", "1/22/20", "2020-01-22">> }

\* the table with the given header, identification cells and counts
Table(columns, layout, cells) ==
    [columns |-> columns,
     rows    |-> AsSeq([r \in 1..Len(layout) |->
                     [Province_State |-> layout[r].Province_State,
                      Country_Region |-> layout[r].Country_Region,
                      Confirmed      |-> cells[r]]])]

\* every well-formed table over the given layouts and date columns
TablesOver(layouts, headers) ==
    UNION { { Table(id_vars \o h, l, cells) :
                cells \in [1..Len(l) -> [1..Len(h) -> 0..MaxCount]] } :
            <<l, h>> \in {x \in layouts \X headers : Len(x[1]) * Len(x[2]) <= MaxCells} }

ShortTables == TablesOver(RowLayouts, Headers)

\* two countries over LongDates consecutive days: one country's counts are
\* free in {0, 1}, the other's are flat
LongTables ==
    { Table(id_vars \o SubSeq(SlashLabels, 1, LongDates),
            << [Province_State |-> NaN, Country_Region |-> "Australia"],
               [Province_State |-> NaN, Country_Region |-> "Brazil"] >>,
            IF free = 1 THEN <<counts, AsSeq([k \in 1..LongDates |-> flat])>>
                        ELSE <<AsSeq([k \in 1..LongDates |-> flat]), counts>>) :
        <<free, flat, counts>> \in (1..2) \X (0..1) \X [1..LongDates -> 0..1] }

\* the tables the store is driven with: one country over no or two dates
\* with any counts, and two countries over three dates, the date columns
\* and the countries out of order
StoreTables ==
    TablesOver({ << [Province_State |-> NaN, Country_Region |-> "Australia"] >> },
               { <<>>, <<"1/22/20", "1/23/20">> })
    \cup
    { Table(id_vars \o <<"1/24/20", "1/22/20", "1/23/20">>,
            << [Province_State |-> NaN, Country_Region |-> "Brazil"],
               [Province_State |-> NaN, Country_Region |-> "Australia"] >>,
            << <<2, 0, 1>>, <<1, 1, 0>> >>) }

\* tables that lack an identification column
MalformedTables ==
    { Table(<<"Province/State", "Country/Region", "Long", "1/22/20", "1/23/20">>,
            << [Province_State |-> NaN, Country_Region |-> "Brazil"] >>,
            << <<1>> >>),
      Table(<<"Province/State", "Lat", "Long", "1/22/20">>,
            << [Province_State |-> NaN, Country_Region |-> NaN] >>,
            << <<>> >>) }

---------------------------------------------------------------------------
(* CovidDataProcessor: the operations as functions of the object's fields *)

\* what a caller sees of an operation: the exception raised ("" when none)
\* and the value returned
Outcome(op, error, rows, countries, country, start_date, end_date) ==
    [op |-> op, error |-> error, rows |-> rows, countries |-> countries,
     country |-> country, start_date |-> start_date, end_date |-> end_date]

NoOutcome == Outcome("", "", <<>>, <<>>, "", 0, 0)

\* sorted(self.data['Country/Region'].unique()); any exception gives []
GetCountryList(d) ==
    IF d = None THEN <<>>
    ELSE IF "Country/Region" \notin Range(d[1].columns) THEN <<>>
    ELSE SortedStrings({d[1].rows[r].Country_Region : r \in 1..Len(d[1].rows)})

\* mutant of FilterRows: the end of the range is excluded
FilterRowsEndExclusive(table, country, start_date, end_date) ==
    LET ofCountry == SelectSeq(table, LAMBDA row : row.Country_Region = country)
    IN  IF ofCountry = <<>> THEN ofCountry
        ELSE SelectSeq(ofCountry,
                       LAMBDA row : row.Date >= start_date /\ row.Date < end_date)

\* lines 180-192: the rows of one country, then those of the date range
FilterRows(table, country, start_date, end_date) ==
    LET ofCountry == SelectSeq(table, LAMBDA row : row.Country_Region = country)
    IN  IF ofCountry = <<>> THEN ofCountry
        ELSE SelectSeq(ofCountry,
                       LAMBDA row : row.Date >= start_date /\ row.Date <= end_date)

\* mutant of FilterData: no derived table means not loaded, nothing is derived
FilterDataFailFast(d, cd, country, start_date, end_date) ==
    IF cd # None
    THEN [error        |-> "",
          rows         |-> FilterRows(cd[1], country, start_date, end_date),
          country_data |-> cd]
    ELSE [error |-> "ValueError: No data loaded", rows |-> <<>>, country_data |-> cd]

\* filter_data on an object with fields d (self.data) and cd
\* (self.country_data): the exception, the rows returned, and the
\* country_data it leaves
FilterData(d, cd, country, start_date, end_date) ==
    IF cd # None
    THEN [error        |-> "",
          rows         |-> FilterRows(cd[1], country, start_date, end_date),
          country_data |-> cd]
    ELSE IF d = None
    THEN [error |-> "ValueError: No data loaded", rows |-> <<>>, country_data |-> cd]
    ELSE LET p == Process(d)
         IN  IF p.error # ""
             THEN [error |-> p.error, rows |-> <<>>, country_data |-> cd]
             ELSE [error        |-> "",
                   rows         |-> FilterRows(p.table, country, start_date, end_date),
                   country_data |-> Some(p.table)]

\* load_data with what read_csv gives: None when the fetch raises
LoadData(d, cd, fetched) ==
    IF fetched = None
    THEN [error |-> "Error loading data: fetch failed", rows |-> <<>>,
          data |-> d, country_data |-> cd]
    ELSE LET p == Process(fetched)
         IN  IF p.error # ""
             THEN [error |-> "Error loading data: " \o p.error, rows |-> <<>>,
                   data |-> fetched, country_data |-> cd]
             ELSE [error |-> "", rows |-> p.table,
                   data |-> fetched, country_data |-> Some(p.table)]

---------------------------------------------------------------------------
(* The store driven through its four methods *)

\* what the page shows at the end of a run
Page(stage, selected_country, date_range, filtered_data, growth_rate) ==
    [stage |-> stage, selected_country |-> selected_country,
     date_range |-> date_range, filtered_data |-> filtered_data,
     growth_rate |-> growth_rate]

NoRate == [num |-> 0, den |-> 0]
NoPage == Page("", "", <<>>, <<>>, NoRate)

Fetches == {None} \cup {Some(t) : t \in StoreTables \cup MalformedTables}

\* the arguments filter_data is called with
QueryCountries == {"Australia", "Brazil", "Nonexististan"}
QueryDates == 1..3

Init ==
    /\ data = None
    /\ country_data = None
    /\ result = NoOutcome
    /\ ui = NoPage

load_data ==
    \E fetched \in Fetches :
        LET r == LoadData(data, country_data, fetched)
        IN  /\ data' = r.data
            /\ country_data' = r.country_data
            /\ result' = Outcome("load_data", r.error, r.rows, <<>>, "", 0, 0)
            /\ UNCHANGED ui

process_data ==
    LET p == Process(data)
    IN  /\ country_data' = IF p.error = "" THEN Some(p.table) ELSE country_data
        /\ result' = Outcome("process_data", p.error, p.table, <<>>, "", 0, 0)
        /\ UNCHANGED <<data, ui>>

get_country_list ==
    /\ result' = Outcome("get_country_list", "", <<>>, GetCountryList(data), "", 0, 0)
    /\ UNCHANGED <<data, country_data, ui>>

filter_data ==
    \E country \in QueryCountries, start_date \in QueryDates, end_date \in QueryDates :
        LET r == FilterData(data, country_data, country, start_date, end_date)
        IN  /\ country_data' = r.country_data
            /\ result' = Outcome("filter_data", r.error, r.rows, <<>>,
                                 country, start_date, end_date)
            /\ UNCHANGED <<data, ui>>

Next == load_data \/ process_data \/ get_country_list \/ filter_data

Spec == Init /\ [][Next]_vars

---------------------------------------------------------------------------
(* process_data as a function of the raw table *)

InitPipeline ==
    /\ data \in {Some(t) : t \in ShortTables \cup LongTables}
    /\ country_data = None
    /\ result = NoOutcome
    /\ ui = NoPage

SpecPipeline == InitPipeline /\ [][process_data]_vars

---------------------------------------------------------------------------
(* One run of the dashboard script (src/main.py) *)

\* data['Date'].min() and .max() of a table with rows
MinDate(table) == CHOOSE d \in {table[i].Date : i \in 1..Len(table)} :
                      \A i \in 1..Len(table) : d <= table[i].Date
MaxDate(table) == CHOOSE d \in {table[i].Date : i \in 1..Len(table)} :
                      \A i \in 1..Len(table) : d >= table[i].Date

\* what st.date_input can return between min_value and max_value: one date
\* while the range is being picked, or a start and an end
DateRanges(min_date, max_date) ==
    {<<d>> : d \in min_date..max_date}
    \cup {x \in (min_date..max_date) \X (min_date..max_date) : x[1] <= x[2]}

\* lines 113-116: iloc[-2] raises IndexError on a one-row series; a division
\* by a zero count gives inf or nan (den = 0) and raises nothing
KeyMetrics(filtered_data) ==
    LET n == Len(filtered_data)
    IN  IF n < 2 THEN [error |-> "IndexError", growth_rate |-> NoRate]
        ELSE [error       |-> "",
              growth_rate |-> [num |-> (filtered_data[n].Confirmed
                                          - filtered_data[n - 1].Confirmed) * 100,
                               den |-> filtered_data[n - 1].Confirmed]]

\* lines 73-144, from the filter on
ShowRange(d, cd, selected_country, date_range) ==
    IF Len(date_range) # 2
    THEN Page("waiting", selected_country, date_range, <<>>, NoRate)
    ELSE LET f == FilterData(d, cd, selected_country, date_range[1], date_range[2])
         IN  IF f.error # ""
             THEN Page("error", selected_country, date_range, <<>>, NoRate)
             ELSE IF f.rows = <<>>
             THEN Page("warning", selected_country, date_range, <<>>, NoRate)
             ELSE IF KeyMetrics(f.rows).error # ""
             THEN Page("error", selected_country, date_range, f.rows, NoRate)
             ELSE Page("charts", selected_country, date_range, f.rows,
                       KeyMetrics(f.rows).growth_rate)

\* what read_csv gives a run of the script
DashboardFetches ==
    Fetches \cup
    {Some(t) : t \in TablesOver(
        { << [Province_State |-> NaN, Country_Region |-> "Australia"] >> },
        { <<"1/22/20", "1/23/20", "1/24/20">> })}

\* a run of the script: the load, the two widgets, the filter, the metrics.
\* On a derived table without rows min_date and max_date are NaT and the
\* date widget is given NaT: the run ends in the error state, or, should the
\* widget return a range, with the warning for an empty series.
DashboardRun ==
    \E fetched \in DashboardFetches :
        LET r == LoadData(data, country_data, fetched)
            countries == GetCountryList(r.data)
        IN  /\ data' = r.data
            /\ country_data' = r.country_data
            /\ UNCHANGED result
            /\ IF r.error # ""
               THEN ui' = Page("error", "", <<>>, <<>>, NoRate)
               ELSE IF r.rows = <<>>
               THEN \E stage \in {"error", "warning"} :
                        ui' = Page(stage, countries[1], <<>>, <<>>, NoRate)
               ELSE \E selected_country \in Range(countries),
                       date_range \in DateRanges(MinDate(r.rows), MaxDate(r.rows)) :
                        ui' = ShowRange(r.data, r.country_data, selected_country, date_range)

SpecDashboard == Init /\ [][DashboardRun]_vars

---------------------------------------------------------------------------
(* Claims about the store (specification Spec) *)

NotLoaded == "ValueError: No data loaded"
FetchFailed == "Error loading data: fetch failed"

C2_AbortedLoadPublishesNothing ==
    [][ (result'.op = "load_data" /\ result'.error # "")
        => (/\ data' = data
            /\ country_data' = country_data
            /\ GetCountryList(data') = GetCountryList(data)) ]_vars

\* the country names of the derived table held
DerivedCountries == IF country_data = None THEN {}
                    ELSE {country_data[1][i].Country_Region : i \in 1..Len(country_data[1])}

\* C3: listCountries returns the distinct countries of the derived table
\* held, sorted ascending, and the empty sequence when nothing is loaded.
C3_CountryListIsOfDerivedTable ==
    result.op = "get_country_list"
        => /\ result.error = ""
           /\ Range(result.countries) = DerivedCountries
           /\ Len(result.countries) = Cardinality(DerivedCountries)
           /\ \A i, j \in 1..Len(result.countries) :
                  i < j => StrLess(result.countries[i], result.countries[j])

\* the rows of the derived table t that a filter for (country, start, end)
\* is to return
Matches(row, country, start_date, end_date) ==
    /\ row.Country_Region = country
    /\ start_date <= row.Date
    /\ row.Date <= end_date

\* C7: with a derived table held, filter returns exactly the rows of the
\* country within start <= date <= end, in ascending date order, raises
\* nothing, and leaves the derived table as it was.
C7_FilterReturnsExactlyTheRange ==
    [][ (country_data # None /\ result'.op = "filter_data")
        => LET rows == result'.rows
               c == result'.country
               s == result'.start_date
               e == result'.end_date
           IN  /\ result'.error = ""
               /\ country_data' = country_data
               /\ \A i \in 1..Len(rows) : /\ rows[i] \in Range(country_data[1])
                                          /\ Matches(rows[i], c, s, e)
               /\ \A row \in Range(country_data[1]) :
                      Matches(row, c, s, e) => row \in Range(rows)
               /\ \A i, j \in 1..Len(rows) : i < j => rows[i].Date < rows[j].Date ]_vars

C7_Witness ==
    /\ result.op = "filter_data"
    /\ result.error = ""
    /\ result.start_date < result.end_date
    /\ Len(result.rows) >= 2
    /\ result.rows[1].Date = result.start_date
    /\ result.rows[Len(result.rows)].Date = result.end_date
    /\ \E row \in Range(country_data[1]) :
           row.Country_Region = result.country /\ row.Date > result.end_date

\* the raw table lacks one of the four identification columns
LacksIdColumn(t) ==
    \E c \in {"Province/State", "Country/Region", "Lat", "Long"} : c \notin Range(t.columns)

\* the raw table has no column besides identification columns
HasNoDateColumn(t) ==
    Range(t.columns) \subseteq {"Province/State", "Country/Region", "Lat", "Long"}

\* the step ran process_data on the raw table held after it
Processed(op, error) ==
    \/ op = "process_data"
    \/ op = "load_data" /\ error # FetchFailed

---------------------------------------------------------------------------
(* Claims about the derivation (specification SpecPipeline) *)

\* the rows of t of row i's country that are dated before row i
EarlierRows(t, i) ==
    {j \in 1..Len(t) : t[j].Country_Region = t[i].Country_Region /\ t[j].Date < t[i].Date}

\* the latest of them
PreviousRow(t, i) ==
    CHOOSE j \in EarlierRows(t, i) : \A k \in EarlierRows(t, i) : t[k].Date <= t[j].Date

\* C4: per country in ascending date order, daily_new is 0 on the first row
\* and max(0, cumulative - previous cumulative) on the others, the previous
\* row being one of the same country; it is never negative.
C4_DailyNewIsClampedDelta ==
    country_data # None =>
        LET t == country_data[1]
        IN  \A i \in 1..Len(t) :
                /\ t[i].Daily_New >= 0
                /\ t[i].Daily_New =
                      IF EarlierRows(t, i) = {} THEN 0
                      ELSE LET delta == t[i].Confirmed - t[PreviousRow(t, i)].Confirmed
                           IN  IF delta > 0 THEN delta ELSE 0

C4_Witness ==
    /\ country_data # None
    /\ date_columns(data[1]) # <<>>
    /\ date_columns(data[1])[1] = "1/23/20"
    /\ Cardinality({data[1].rows[r].Country_Region : r \in 1..Len(data[1].rows)}) = 2
    /\ LET t == country_data[1]
       IN  /\ \E i \in 1..Len(t) :
                  /\ EarlierRows(t, i) # {}
                  /\ t[i].Confirmed < t[PreviousRow(t, i)].Confirmed
                  /\ t[i].Daily_New = 0
           /\ \E i \in 1..Len(t) : t[i].Daily_New > 0
           /\ \E i \in 2..Len(t) :
                  /\ t[i].Country_Region # t[i - 1].Country_Region
                  /\ t[i].Confirmed > t[i - 1].Confirmed

\* the rows of the trailing window of row i: row i and the up to six rows of
\* its country dated just before it
TrailingRows(t, i) ==
    {j \in EarlierRows(t, i) \cup {i} :
        Cardinality({k \in EarlierRows(t, i) \cup {i} : t[k].Date > t[j].Date}) <= 6}

\* C5: seven_day_avg of a row is the mean of daily_new over the row and the
\* up to six rows of the same country dated just before it.
C5_AverageIsTrailingMean ==
    country_data # None =>
        LET t == country_data[1]
        IN  \A i \in 1..Len(t) :
                LET W == TrailingRows(t, i)
                    total == SumSeq(AsSeq([j \in 1..Len(t) |->
                                 IF j \in W THEN t[j].Daily_New ELSE 0]))
                IN  /\ t[i].Seven_Day_Average.den > 0
                    /\ t[i].Seven_Day_Average.num * Cardinality(W)
                           = total * t[i].Seven_Day_Average.den

C5_Witness ==
    /\ country_data # None
    /\ LET t == country_data[1]
       IN  /\ \E i \in 1..Len(t) :
                  /\ Cardinality(EarlierRows(t, i)) > 6
                  /\ t[i].Seven_Day_Average.den = 7
                  /\ t[i].Seven_Day_Average.num > 0
                  /\ \E j \in EarlierRows(t, i) \ TrailingRows(t, i) : t[j].Daily_New > 0
           /\ \E i \in 1..Len(t) :
                  /\ Cardinality(EarlierRows(t, i)) = 2
                  /\ t[i].Seven_Day_Average.den = 3
                  /\ t[i].Seven_Day_Average.num > 0
           /\ \E i \in 2..Len(t) :
                  /\ t[i].Country_Region # t[i - 1].Country_Region
                  /\ t[i - 1].Daily_New > 0
                  /\ t[i].Seven_Day_Average.num = 0

\* the reshaped input of the aggregation: the long rows with parsed dates
LongRows == ParseDates(Melt(data[1]))

\* the sum of the counts of the long rows of one country and date
CountOn(rows, country, date) ==
    LET group == SelectSeq(rows, LAMBDA row : row.Country_Region = country /\ row.Date = date)
    IN  SumSeq(AsSeq([n \in 1..Len(group) |-> group[n].Confirmed]))

\* C6: the derived table has exactly one row per (country, date) of the
\* long rows with a valid date and no other row, and the row's cumulative is
\* the sum of the counts of that country on that date over all subdivisions.
C6_OneRowPerCountryAndDate ==
    country_data # None =>
        LET t == country_data[1]
            rows == LongRows
            pairs == {<<rows[n].Country_Region, rows[n].Date>> :
                         n \in {m \in 1..Len(rows) : rows[m].Date # NaT}}
        IN  /\ \A key \in pairs :
                   Cardinality({i \in 1..Len(t) :
                       <<t[i].Country_Region, t[i].Date>> = key}) = 1
            /\ \A i \in 1..Len(t) :
                   /\ <<t[i].Country_Region, t[i].Date>> \in pairs
                   /\ t[i].Confirmed = CountOn(rows, t[i].Country_Region, t[i].Date)

C6_Witness ==
    /\ country_data # None
    /\ \E r1, r2 \in 1..Len(data[1].rows) :
           /\ data[1].rows[r1].Country_Region = data[1].rows[r2].Country_Region
           /\ data[1].rows[r1].Province_State = NaN
           /\ data[1].rows[r2].Province_State # NaN
           /\ \E k \in 1..Len(date_columns(data[1])) :
                  /\ data[1].rows[r1].Confirmed[k] > 0
                  /\ data[1].rows[r2].Confirmed[k] > 0
                  /\ \E i \in 1..Len(country_data[1]) :
                         /\ country_data[1][i].Country_Region = data[1].rows[r1].Country_Region
                         /\ country_data[1][i].Confirmed =
                                data[1].rows[r1].Confirmed[k] + data[1].rows[r2].Confirmed[k]

\* C9: a label the primary parse rejects and the alternate format accepts
\* yields rows that carry the date the alternate format gives it.
C9_AlternateFormatRecoversLabel ==
    country_data # None =>
        LET melted_df == Melt(data[1])
            labels == AsSeq([n \in 1..Len(melted_df) |-> melted_df[n].Date])
            primary == ToDatetime(labels)
        IN  \A n \in 1..Len(melted_df) :
                (primary[n] = NaT /\ Strptime(labels[n], "%m/%d/%y") # NaT)
                    => \E i \in 1..Len(country_data[1]) :
                           /\ country_data[1][i].Country_Region = melted_df[n].Country_Region
                           /\ country_data[1][i].Date = Strptime(labels[n], "%m/%d/%y")

---------------------------------------------------------------------------
(* Claims about the dashboard run (specification SpecDashboard) *)

\* C10: a run whose load succeeds and whose filter returns a non-empty
\* series, a one-row series included, completes the key metrics and reaches
\* the charts without entering the error state.
C10_NonEmptySeriesReachesCharts ==
    ui.filtered_data # <<>> => ui.stage = "charts"

====
